---- MODULE Spec2Model ----
(***************************************************************************)
(* invoice-mapper (src/index.ts): a folder of PDF invoices is read, the    *)
(* text of each PDF is sent to a schema-constrained generation service,    *)
(* the validated records are collected and written to a CSV file.          *)
(*                                                                         *)
(* JavaScript strings are sequences of one-character strings, so that      *)
(* path.extname and toLowerCase are computed and not assumed.  A JSON      *)
(* value is a record [t, s, n]; a JavaScript object is a sequence of       *)
(* [k, v] pairs in key insertion order.                                    *)
(***************************************************************************)
EXTENDS Integers, Sequences, FiniteSets, TLC

\* ------------------------------------------------------------------ bounds
MaxFiles == 2          \* entries the directory listing holds at most

\* ------------------------------------------------------ program constants
maxRetries == 8        \* generateObject({ maxRetries: 8 })

\* ------------------------------------------------------------- JS values
Str(s) == [t |-> "string", s |-> s, n |-> 0]
Num(n) == [t |-> "number", s |-> <<>>, n |-> n]
Null == [t |-> "null", s |-> <<>>, n |-> 0]
Undefined == [t |-> "undefined", s |-> <<>>, n |-> 0]

Pair(k, v) == [k |-> k, v |-> v]

Has(obj, key) == \E j \in 1..Len(obj) : obj[j].k = key

\* obj[key]: undefined when the key is absent
Get(obj, key) ==
  IF Has(obj, key)
    THEN obj[CHOOSE j \in 1..Len(obj) : obj[j].k = key].v
    ELSE Undefined

Keys(obj) == [j \in 1..Len(obj) |-> obj[j].k]

\* { ...obj, [key]: v }: an own key keeps its position, a new key goes last
Spread(obj, key, v) ==
  IF Has(obj, key)
    THEN [j \in 1..Len(obj) |-> IF obj[j].k = key THEN Pair(key, v) ELSE obj[j]]
    ELSE Append(obj, Pair(key, v))

\* ------------------------------------------------------------ file names
Lower(c) ==
  CASE c = "P" -> "p"
    [] c = "D" -> "d"
    [] c = "F" -> "f"
    [] c = "B" -> "b"
    [] OTHER -> c

toLowerCase(s) == [j \in 1..Len(s) |-> Lower(s[j])]

Dots(s) == {j \in 1..Len(s) : s[j] = "."}

LastDot(s) == CHOOSE j \in Dots(s) : \A k \in Dots(s) : k <= j

\* path.extname of a name without directory separators: from the last "."
\* to the end; empty when there is no "." or the only "." starts the name
extname(s) ==
  IF Dots(s) = {} \/ LastDot(s) = 1
    THEN <<>>
    ELSE SubSeq(s, LastDot(s), Len(s))

DotPdf == <<".", "p", "d", "f">>

FileA == <<"a", ".", "p", "d", "f">>
FileB == <<"B", ".", "P", "D", "F">>
FileTxt == <<"n", ".", "t", "x", "t">>
FileDot == <<".", "p", "d", "f">>

Names == {FileA, FileB, FileTxt, FileDot}

RECURSIVE SeqsNoRep(_, _)
SeqsNoRep(S, n) ==
  IF n = 0
    THEN {<<>>}
    ELSE LET shorter == SeqsNoRep(S, n - 1)
         IN shorter \cup
            {Append(q, x) : q \in {r \in shorter : Len(r) = n - 1},
                            x \in S}

NoRep(q) == \A i, j \in 1..Len(q) : i # j => q[i] # q[j]

\* what fs.readdir may return: the entries of the directory in the order
\* the operating system lists them
Listings == {q \in SeqsNoRep(Names, MaxFiles) : NoRep(q)}

\* UTF-16 code unit of the characters file names are made of
CharCode(c) ==
  CASE c = "." -> 46 [] c = "B" -> 66 [] c = "D" -> 68 [] c = "F" -> 70
    [] c = "P" -> 80 [] c = "a" -> 97 [] c = "b" -> 98 [] c = "d" -> 100
    [] c = "f" -> 102 [] c = "n" -> 110 [] c = "p" -> 112 [] c = "t" -> 116
    [] OTHER -> 120

RECURSIVE LexLess(_, _)
\* a < b as JavaScript compares strings
LexLess(a, b) ==
  IF b = <<>> THEN FALSE
  ELSE IF a = <<>> THEN TRUE
  ELSE IF Head(a) # Head(b) THEN CharCode(Head(a)) < CharCode(Head(b))
  ELSE LexLess(Tail(a), Tail(b))

\* the entries of q in lexicographic order
Sorted(q) ==
  CHOOSE r \in [1..Len(q) -> {q[j] : j \in 1..Len(q)}] :
    /\ \A i, j \in 1..Len(q) : i < j => LexLess(r[i], r[j])

\* case-sensitive comparison of the extension
IsPdf_CaseSensitive(file) == extname(file) = DotPdf

IsPdf(file) == toLowerCase(extname(file)) = DotPdf

\* the filtered listing sorted by file name
pdfFilter_Sorted(files) == Sorted(SelectSeq(files, IsPdf))

\* files.filter((file) => path.extname(file).toLowerCase() === ".pdf")
pdfFilter(files) == SelectSeq(files, IsPdf)

\* path.join(invoiceDir, file)
filePathOf(file) == <<"/">> \o file

\* pdfData.text of the file at a path
TextOf(file) == <<"$">> \o file

\* ---------------------------------------------------------------- schema
\* z.object({ ... }): the ten fields in declaration order with their types
schema ==
  << [k |-> "invoiceNumber", t |-> "string"],
     [k |-> "issueDate", t |-> "string"],
     [k |-> "companyName", t |-> "string"],
     [k |-> "companyAddress", t |-> "string"],
     [k |-> "dueDate", t |-> "string"],
     [k |-> "totalAmount", t |-> "number"],
     [k |-> "currency", t |-> "string"],
     [k |-> "customerName", t |-> "string"],
     [k |-> "customerAddress", t |-> "string"],
     [k |-> "taxes", t |-> "number"] >>

\* only the presence of the keys is looked at, not the types
SchemaAccepts_KeysOnly(obj) ==
  \A j \in 1..Len(schema) : Get(obj, schema[j].k).t # "undefined"

\* taxes declared optional
SchemaAccepts_TaxesOptional(obj) ==
  \A j \in 1..(Len(schema) - 1) : Get(obj, schema[j].k).t = schema[j].t

\* invoiceNumber refined with a test that rejects "#", "*" and "\\"
SchemaAccepts_NoMarkup(obj) ==
  /\ \A j \in 1..Len(schema) : Get(obj, schema[j].k).t = schema[j].t
  /\ \A c \in 1..Len(Get(obj, "invoiceNumber").s) :
       Get(obj, "invoiceNumber").s[c] \notin {"#", "*", "\\"}

\* the schema accepts an object when every declared key holds a value of
\* the declared type; .describe() texts constrain nothing
SchemaAccepts(obj) ==
  \A j \in 1..Len(schema) : Get(obj, schema[j].k).t = schema[j].t

\* the validated value: the declared keys in declaration order, any other
\* key of the input stripped
SchemaParse(obj) ==
  [j \in 1..Len(schema) |-> Pair(schema[j].k, Get(obj, schema[j].k))]

\* ------------------------------------------- generation service responses
INV1 == <<"I", "1">>
INV2 == <<"#", "2">>
D1 == <<"d">>
Acme == <<"A">>
Addr == <<"x", ",", "y">>
Eur == <<"E">>
Cust == <<"C">>
Evil == <<"e", ".", "p", "d", "f">>

RespGood ==
  << Pair("invoiceNumber", Str(INV1)), Pair("issueDate", Str(D1)),
     Pair("companyName", Str(Acme)), Pair("companyAddress", Str(Addr)),
     Pair("dueDate", Str(D1)), Pair("totalAmount", Num(150)),
     Pair("currency", Str(Eur)), Pair("customerName", Str(Cust)),
     Pair("customerAddress", Str(Addr)), Pair("taxes", Num(0)) >>

\* a conforming object with its keys in another order, a key the schema
\* does not declare, and "#" in invoiceNumber
RespShuffled ==
  << Pair("taxes", Num(21)), Pair("fileName", Str(Evil)),
     Pair("customerAddress", Str(Addr)), Pair("customerName", Str(Cust)),
     Pair("currency", Str(Eur)), Pair("totalAmount", Num(121)),
     Pair("dueDate", Str(D1)), Pair("companyAddress", Str(Addr)),
     Pair("companyName", Str(Acme)), Pair("issueDate", Str(D1)),
     Pair("invoiceNumber", Str(INV2)) >>

RespNegTax == Spread(RespGood, "taxes", Num(-5))

\* taxes absent
RespNoTaxes == SubSeq(RespGood, 1, 9)

\* totalAmount a string where a number is declared
RespWrongType == Spread(RespGood, "totalAmount", Str(<<"1", "5", "0">>))

\* taxes null
RespNullTaxes == Spread(RespGood, "taxes", Null)

Responses ==
  {RespGood, RespShuffled, RespNegTax, RespNoTaxes, RespWrongType,
   RespNullTaxes}

\* what one generation request ends in: a JSON object, a response body
\* that is no JSON, a retryable API call error (network failure, 5xx), or
\* an API call error that is not retryable (4xx)
Object(obj) == [kind |-> "object", obj |-> obj]
Malformed == [kind |-> "malformed", obj |-> <<>>]
Network == [kind |-> "network", obj |-> <<>>]
Refused == [kind |-> "refused", obj |-> <<>>]

Outcomes == {Object(r) : r \in Responses} \cup {Malformed, Network, Refused}

\* how many requests a service behaviour fails before it changes: none,
\* one, and the counts around the retry bound
FailCounts == {0, 1, maxRetries - 1, maxRetries, maxRetries + 1}

\* a service behaviour for one document: `pre` on the first k requests,
\* `post` on every later one.  Any outcome from the first request on; k
\* network failures and then an outcome of each kind; k schema-invalid
\* objects and then a conforming one.
Scripts ==
  {[pre |-> Network, k |-> 0, post |-> o] : o \in Outcomes} \cup
  {[pre |-> Network, k |-> k, post |-> o] :
     k \in FailCounts \ {0},
     o \in {Object(RespGood), Object(RespNoTaxes), Malformed, Refused}} \cup
  {[pre |-> Object(RespNoTaxes), k |-> k, post |-> Object(RespGood)] :
     k \in FailCounts \ {0}}

Reply(sc, attempt) == IF attempt <= sc.k THEN sc.pre ELSE sc.post

\* ------------------------------------------------------------ CSV writer
\* stringify({ header: false, columns: [...] })
header == FALSE

columns ==
  << "fileName", "invoiceNumber", "issueDate", "companyName",
     "companyAddress", "dueDate", "totalAmount", "currency", "customerName",
     "customerAddress", "taxes" >>

Digit(d) ==
  CASE d = 0 -> "0" [] d = 1 -> "1" [] d = 2 -> "2" [] d = 3 -> "3"
    [] d = 4 -> "4" [] d = 5 -> "5" [] d = 6 -> "6" [] d = 7 -> "7"
    [] d = 8 -> "8" [] OTHER -> "9"

RECURSIVE NatChars(_)
NatChars(n) ==
  IF n < 10 THEN <<Digit(n)>> ELSE NatChars(n \div 10) \o <<Digit(n % 10)>>

\* the text of a cell: a string as it is, a number in decimal, nothing for
\* null and undefined
Cast(v) ==
  CASE v.t = "string" -> v.s
    [] v.t = "number" ->
         IF v.n < 0 THEN <<"-">> \o NatChars(0 - v.n) ELSE NatChars(v.n)
    [] OTHER -> <<>>

Truthy(v) ==
  CASE v.t = "string" -> v.s # <<>>
    [] v.t = "number" -> v.n # 0
    [] OTHER -> FALSE

\* { ...row, fileName: row.fileName || "" }
csvRow(row) ==
  Spread(row, "fileName",
         IF Truthy(Get(row, "fileName")) THEN Get(row, "fileName")
         ELSE Str(<<>>))

\* the cells in the key order of the record, the columns option ignored
Cells_KeyOrder(rec) == [j \in 1..Len(rec) |-> Cast(rec[j].v)]

\* the cells the stringifier emits for one record: one per column, in the
\* order of `columns`, looked up by key
Cells(rec) == [j \in 1..Len(columns) |-> Cast(Get(rec, columns[j]))]

HeaderRows == IF header THEN <<columns>> ELSE <<>>

\* the lines stringifier.write(csvRow) queues for the rows of `data`
Lines(data) == HeaderRows \o [j \in 1..Len(data) |-> Cells(csvRow(data[j]))]

\* ----------------------------------------------------------------- state
VARIABLES
  pc,             \* where main is: readdir, readFile, pdf, loop, generate,
                  \*   write, done, aborted
  dir,            \* the listing fs.readdir returns for the invoices folder
  pdfFiles,       \* readInvoices: the filtered listing
  ridx,           \* readInvoices: position of its for..of loop
  invoiceData,    \* readInvoices: the documents loaded so far
  invoiceContents,\* main: the value readInvoices returned
  idx,            \* main: position of its for..of loop
  extractedData,  \* main: the Batch
  script,         \* the service's behaviour during the current call
  attempts,       \* generation requests issued by the current call
  inflight,       \* generation requests awaiting a response
  errors,         \* generateObject: the errors of the failed requests
  thrown,         \* the error extractInvoiceData threw last
  caught,         \* the error main's outer catch received
  log,            \* console output, one entry per line printed
  wcalls,         \* invocations of writeToCSV
  wdata,          \* the data argument of writeToCSV
  queue,          \* the lines written to the stringifier
  stream,         \* write stream: none, opening, open, finished, errored
  fdOpen,         \* the output file's handle is open
  fileExists,     \* the output file exists
  file,           \* the lines in the output file
  promise         \* the promise writeToCSV returned: none, pending,
                  \*   resolved, rejected

vars ==
  << pc, dir, pdfFiles, ridx, invoiceData, invoiceContents, idx,
     extractedData, script, attempts, inflight, errors, thrown, caught, log,
     wcalls, wdata, queue, stream, fdOpen, fileExists, file, promise >>

readVars == <<pdfFiles, ridx, invoiceData>>
loopVars == <<invoiceContents, idx, extractedData>>
callVars == <<script, attempts, inflight, errors, thrown>>
writeVars == <<wcalls, wdata, queue, stream, fdOpen, fileExists, file, promise>>

NoError == [kind |-> "none", last |-> "none", tries |-> 0]
\* a line of console output: the function that printed it, its text, its
\* argument
Entry(fn, ev, arg) == [fn |-> fn, ev |-> ev, arg |-> arg]

Init ==
  /\ pc = "readdir"
  /\ dir \in Listings
  /\ pdfFiles = <<>>
  /\ ridx = 0
  /\ invoiceData = <<>>
  /\ invoiceContents = <<>>
  /\ idx = 0
  /\ extractedData = <<>>
  /\ script = [pre |-> Network, k |-> 0, post |-> Network]
  /\ attempts = 0
  /\ inflight = 0
  /\ errors = <<>>
  /\ thrown = NoError
  /\ caught = "none"
  /\ log = <<>>
  /\ wcalls = 0
  /\ wdata = <<>>
  /\ queue = <<>>
  /\ stream = "none"
  /\ fdOpen = FALSE
  /\ fileExists = FALSE
  /\ file = <<>>
  /\ promise = "none"

\* ---------------------------------------------------------- readInvoices
\* main's outer catch: console.error("Error:", error), and main returns
MainCatch(kind) ==
  /\ caught' = kind
  /\ log' = Append(log, Entry("main", "Error:", kind))
  /\ pc' = "aborted"

\* return invoiceData; main logs the count and enters its loop
ReadReturn(data) ==
  /\ invoiceContents' = data
  /\ log' = Append(log, Entry("main", "Parsed invoices.", Len(data)))
  /\ idx' = 1
  /\ extractedData' = <<>>
  /\ pc' = "loop"
  /\ caught' = caught

\* await fs.readdir(invoiceDir) rejects
ReadDirFail ==
  /\ pc = "readdir"
  /\ MainCatch("readdir")
  /\ UNCHANGED <<dir, readVars, loopVars, callVars, writeVars>>

\* await fs.readdir(invoiceDir) resolves; the listing is filtered
ReadDir ==
  /\ pc = "readdir"
  /\ pdfFiles' = pdfFilter(dir)
  /\ invoiceData' = <<>>
  /\ ridx' = 1
  /\ IF pdfFilter(dir) = <<>>
       THEN ReadReturn(<<>>)
       ELSE /\ pc' = "readFile"
            /\ UNCHANGED <<loopVars, caught, log>>
  /\ UNCHANGED <<dir, callVars, writeVars>>

\* a file that cannot be read is skipped: readInvoices logs the error and
\* returns the documents loaded so far
ReadFileFail_Skip ==
  /\ pc = "readFile"
  /\ invoiceContents' = invoiceData
  /\ log' = log \o << Entry("readInvoices", "Error:", "readFile"),
                      Entry("main", "Parsed invoices.", Len(invoiceData)) >>
  /\ idx' = 1
  /\ pc' = "loop"
  /\ UNCHANGED <<dir, readVars, extractedData, callVars, caught, writeVars>>

\* await fs.readFile(filePath) rejects
ReadFileFail ==
  /\ pc = "readFile"
  /\ MainCatch("readFile")
  /\ UNCHANGED <<dir, readVars, loopVars, callVars, writeVars>>

\* await fs.readFile(filePath) resolves
ReadFile ==
  /\ pc = "readFile"
  /\ pc' = "pdf"
  /\ UNCHANGED <<dir, readVars, loopVars, callVars, caught, log, writeVars>>

\* await pdf(dataBuffer) rejects
PdfFail ==
  /\ pc = "pdf"
  /\ MainCatch("pdf")
  /\ UNCHANGED <<dir, readVars, loopVars, callVars, writeVars>>

\* await pdf(dataBuffer) resolves; the document is pushed and the loop
\* goes on, or readInvoices returns
PdfParse ==
  /\ pc = "pdf"
  /\ LET f == pdfFiles[ridx]
         doc == [content |-> TextOf(f), fileName |-> f,
                 filePath |-> filePathOf(f)]
         data == Append(invoiceData, doc)
     IN /\ invoiceData' = data
        /\ ridx' = ridx + 1
        /\ IF ridx + 1 > Len(pdfFiles)
             THEN ReadReturn(data)
             ELSE /\ pc' = "readFile"
                  /\ UNCHANGED <<loopVars, caught, log>>
  /\ UNCHANGED <<dir, pdfFiles, callVars, writeVars>>

\* -------------------------------------------------- extractInvoiceData
ApiError(kind) == [kind |-> "APICallError", last |-> kind, tries |-> 1]
RetryAgain == [kind |-> "retry", last |-> "none", tries |-> 0]
RetryError(last, tries) == [kind |-> "RetryError", last |-> last, tries |-> tries]
ValidationError == [kind |-> "TypeValidationError", last |-> "object", tries |-> 0]
JSONParseError == [kind |-> "JSONParseError", last |-> "malformed", tries |-> 0]

\* no error counts as retryable
isRetryable_Never(o) == FALSE

\* APICallError.isRetryable: network failures and 5xx/429 answers
isRetryable(o) == o.kind = "network"

\* a request that ended in an API call error
IsApiError(o) == o.kind \in {"network", "refused"}

\* maxRetries taken as the number of requests, not of retries
retryWithExponentialBackoff_OffByOne(o, errs) ==
  LET tryNumber == Len(errs) + 1
  IN IF tryNumber >= maxRetries
       THEN RetryError(o.kind, tryNumber)
       ELSE IF isRetryable(o)
              THEN RetryAgain
              ELSE IF tryNumber = 1
                     THEN ApiError(o.kind)
                     ELSE RetryError(o.kind, tryNumber)

\* the retry wrapper of generateObject, on the error `o` of a request when
\* `errs` are the errors of the earlier requests of the call: RetryAgain,
\* or the error it throws
retryWithExponentialBackoff(o, errs) ==
  LET tryNumber == Len(errs) + 1
  IN IF tryNumber > maxRetries
       THEN RetryError(o.kind, tryNumber)
       ELSE IF isRetryable(o)
              THEN RetryAgain
              ELSE IF tryNumber = 1
                     THEN ApiError(o.kind)
                     ELSE RetryError(o.kind, tryNumber)

\* the error generateObject throws for a response the retry wrapper
\* returned: the text is parsed and validated once, outside the wrapper
parseError(o) ==
  IF o.kind = "malformed" THEN JSONParseError ELSE ValidationError

\* the response is an object the schema accepts
IsValid(o) == o.kind = "object" /\ SchemaAccepts(o.obj)

\* the inner try/catch of main left out: the error reaches the outer catch
ExtractCatch_Outer(err) ==
  /\ thrown' = err
  /\ log' = log \o
       << Entry("extractInvoiceData", "Error extracting invoice data:", err.kind),
          Entry("main", "Error:", err.kind) >>
  /\ caught' = "extract"
  /\ pc' = "aborted"
  /\ UNCHANGED <<invoiceContents, idx, extractedData>>

\* catch (error) { console.error(...); } without the rethrow: the call
\* returns undefined and main pushes { ...undefined, fileName }
ExtractCatch_Swallow(err) ==
  /\ thrown' = thrown
  /\ log' = log \o
       << Entry("extractInvoiceData", "Error extracting invoice data:", err.kind),
          Entry("main", "Extracted invoice data:", <<>>) >>
  /\ extractedData' =
       Append(extractedData,
              Spread(<<>>, "fileName", Str(invoiceContents[idx].fileName)))
  /\ idx' = idx + 1
  /\ pc' = "loop"
  /\ caught' = caught
  /\ UNCHANGED invoiceContents

\* the failed document is taken up again: the loop position is kept
ExtractCatch_Requeue(err) ==
  /\ thrown' = err
  /\ log' = log \o
       << Entry("extractInvoiceData", "Error extracting invoice data:", err.kind),
          Entry("main", "Error extracting invoice data:", err.kind) >>
  /\ pc' = "loop"
  /\ caught' = caught
  /\ UNCHANGED <<invoiceContents, idx, extractedData>>

\* catch (error) { console.error(...); throw error; } in
\* extractInvoiceData, then main's inner catch: the error is logged and the
\* loop goes on with the next document
ExtractCatch(err) ==
  /\ thrown' = err
  /\ log' = log \o
       << Entry("extractInvoiceData", "Error extracting invoice data:", err.kind),
          Entry("main", "Error extracting invoice data:", err.kind) >>
  /\ idx' = idx + 1
  /\ pc' = "loop"
  /\ caught' = caught
  /\ UNCHANGED <<invoiceContents, extractedData>>

\* extractInvoiceData called without await: the request is issued, main
\* pushes { ...promise, fileName } and goes on to the next document
Generate_NoAwait ==
  /\ pc = "loop"
  /\ idx <= Len(invoiceContents)
  /\ log' = log \o
       << Entry("main", "Processing invoice:", invoiceContents[idx].fileName),
          Entry("main", "Extracted invoice data:", <<>>) >>
  /\ script' \in Scripts
  /\ attempts' = 1
  /\ inflight' = inflight + 1
  /\ errors' = <<>>
  /\ extractedData' =
       Append(extractedData,
              Spread(<<>>, "fileName", Str(invoiceContents[idx].fileName)))
  /\ idx' = idx + 1
  /\ pc' = "loop"
  /\ UNCHANGED <<dir, readVars, invoiceContents, thrown, caught, writeVars>>

\* for (const invoice of invoiceContents): the next document is announced
\* and extractInvoiceData issues its first generation request
Generate ==
  /\ pc = "loop"
  /\ idx <= Len(invoiceContents)
  /\ log' = Append(log, Entry("main", "Processing invoice:",
                            invoiceContents[idx].fileName))
  /\ script' \in Scripts
  /\ attempts' = 1
  /\ inflight' = inflight + 1
  /\ errors' = <<>>
  /\ pc' = "generate"
  /\ UNCHANGED <<dir, readVars, loopVars, thrown, caught, writeVars>>

\* a request ends in a retryable API call error and the wrapper issues the
\* request again with the same inputs
Retry ==
  /\ pc = "generate"
  /\ LET o == Reply(script, attempts)
     IN /\ IsApiError(o)
        /\ retryWithExponentialBackoff(o, errors) = RetryAgain
        /\ errors' = Append(errors, o.kind)
  /\ attempts' = attempts + 1
  /\ UNCHANGED <<pc, dir, readVars, loopVars, script, inflight, thrown,
                 caught, log, writeVars>>

\* a request ends in an API call error the wrapper does not retry
ApiThrow ==
  /\ pc = "generate"
  /\ LET o == Reply(script, attempts)
         r == retryWithExponentialBackoff(o, errors)
     IN /\ IsApiError(o)
        /\ r # RetryAgain
        /\ errors' = Append(errors, o.kind)
        /\ ExtractCatch(r)
  /\ inflight' = inflight - 1
  /\ UNCHANGED <<dir, readVars, script, attempts, writeVars>>

\* a request returns a response that is no JSON or that the schema rejects
ParseThrow ==
  /\ pc = "generate"
  /\ LET o == Reply(script, attempts)
     IN /\ ~IsApiError(o)
        /\ ~IsValid(o)
        /\ ExtractCatch(parseError(o))
  /\ inflight' = inflight - 1
  /\ UNCHANGED <<dir, readVars, script, attempts, errors, writeVars>>

\* unshift instead of push
push_Front(batch, rec) == <<rec>> \o batch

\* extractedData.push(rec)
push(batch, rec) == Append(batch, rec)

\* main pushes the validated object as it is, without the file name
Extracted_NoFileName ==
  /\ pc = "generate"
  /\ LET o == Reply(script, attempts)
         data == SchemaParse(o.obj)
     IN /\ IsValid(o)
        /\ extractedData' = push(extractedData, data)
        /\ log' = Append(log, Entry("main", "Extracted invoice data:", data))
  /\ idx' = idx + 1
  /\ pc' = "loop"
  /\ inflight' = inflight - 1
  /\ UNCHANGED <<dir, readVars, invoiceContents, script, attempts, errors,
                 thrown, caught, writeVars>>

\* a request returns an object the schema accepts: the validated object is
\* returned and main pushes { ...data, fileName: invoice.fileName }
Extracted ==
  /\ pc = "generate"
  /\ LET o == Reply(script, attempts)
         data == SchemaParse(o.obj)
     IN /\ IsValid(o)
        /\ extractedData' =
             push(extractedData,
                  Spread(data, "fileName", Str(invoiceContents[idx].fileName)))
        /\ log' = Append(log, Entry("main", "Extracted invoice data:", data))
  /\ idx' = idx + 1
  /\ pc' = "loop"
  /\ inflight' = inflight - 1
  /\ UNCHANGED <<dir, readVars, invoiceContents, script, attempts, errors,
                 thrown, caught, writeVars>>

\* ------------------------------------------------------------ writeToCSV
\* the writer skipped when there is nothing to write
WriteToCSV_SkipEmpty ==
  /\ pc = "loop"
  /\ idx > Len(invoiceContents)
  /\ extractedData # <<>>
  /\ wcalls' = wcalls + 1
  /\ wdata' = extractedData
  /\ queue' = Lines(extractedData)
  /\ stream' = "opening"
  /\ promise' = "pending"
  /\ pc' = "write"
  /\ UNCHANGED <<dir, readVars, loopVars, callVars, caught, log, fdOpen,
                 fileExists, file>>

\* the writer called inside the loop, after the first resolved document
WriteToCSV_InLoop ==
  /\ pc = "loop"
  /\ (idx > 1 \/ idx > Len(invoiceContents))
  /\ wcalls' = wcalls + 1
  /\ wdata' = extractedData
  /\ queue' = Lines(extractedData)
  /\ stream' = "opening"
  /\ promise' = "pending"
  /\ pc' = "write"
  /\ UNCHANGED <<dir, readVars, loopVars, callVars, caught, log, fdOpen,
                 fileExists, file>>

\* the loop of main is over: writeToCSV(extractedData, outputPath) creates
\* the stringifier and the write stream, writes every row to the
\* stringifier, pipes it to the stream, ends it and returns its promise
WriteToCSV ==
  /\ pc = "loop"
  /\ idx > Len(invoiceContents)
  /\ wcalls' = wcalls + 1
  /\ wdata' = extractedData
  /\ queue' = Lines(extractedData)
  /\ stream' = "opening"
  /\ promise' = "pending"
  /\ pc' = "write"
  /\ UNCHANGED <<dir, readVars, loopVars, callVars, caught, log, fdOpen,
                 fileExists, file>>

\* createWriteStream: the file is created or truncated and its handle is
\* open
StreamOpen ==
  /\ stream = "opening"
  /\ stream' = "open"
  /\ fdOpen' = TRUE
  /\ fileExists' = TRUE
  /\ file' = <<>>
  /\ UNCHANGED <<pc, dir, readVars, loopVars, callVars, caught, log, wcalls,
                 wdata, queue, promise>>

\* the file cannot be opened: the stream emits "error" and the promise
\* is rejected
StreamOpenError ==
  /\ stream = "opening"
  /\ stream' = "errored"
  /\ promise' = "rejected"
  /\ UNCHANGED <<pc, dir, readVars, loopVars, callVars, caught, log, wcalls,
                 wdata, queue, fdOpen, fileExists, file>>

\* the next queued line is written to the file
StreamWrite ==
  /\ stream = "open"
  /\ Len(file) < Len(queue)
  /\ file' = Append(file, queue[Len(file) + 1])
  /\ UNCHANGED <<pc, dir, readVars, loopVars, callVars, caught, log, wcalls,
                 wdata, queue, stream, fdOpen, fileExists, promise>>

\* no listener for "error": the promise stays pending
StreamWriteError_NoReject ==
  /\ stream = "open"
  /\ Len(file) < Len(queue)
  /\ stream' = "errored"
  /\ UNCHANGED <<pc, dir, readVars, loopVars, callVars, caught, log, wcalls,
                 wdata, queue, fdOpen, fileExists, file, promise>>

\* a write fails: the stream emits "error" and the promise is rejected
StreamWriteError ==
  /\ stream = "open"
  /\ Len(file) < Len(queue)
  /\ stream' = "errored"
  /\ promise' = "rejected"
  /\ UNCHANGED <<pc, dir, readVars, loopVars, callVars, caught, log, wcalls,
                 wdata, queue, fdOpen, fileExists, file>>

\* "finish" emitted whether or not the queued lines are written
StreamFinish_Early ==
  /\ stream = "open"
  /\ stream' = "finished"
  /\ promise' = "resolved"
  /\ UNCHANGED <<pc, dir, readVars, loopVars, callVars, caught, log, wcalls,
                 wdata, queue, fdOpen, fileExists, file>>

\* no listener for "finish": the promise stays pending
StreamFinish_NoResolve ==
  /\ stream = "open"
  /\ Len(file) = Len(queue)
  /\ stream' = "finished"
  /\ UNCHANGED <<pc, dir, readVars, loopVars, callVars, caught, log, wcalls,
                 wdata, queue, fdOpen, fileExists, file, promise>>

\* every line is written: the stream emits "finish" and the promise is
\* resolved
StreamFinish ==
  /\ stream = "open"
  /\ Len(file) = Len(queue)
  /\ stream' = "finished"
  /\ promise' = "resolved"
  /\ UNCHANGED <<pc, dir, readVars, loopVars, callVars, caught, log, wcalls,
                 wdata, queue, fdOpen, fileExists, file>>

\* the stream is destroyed after "finish" or "error": the handle is closed
StreamClose ==
  /\ stream \in {"finished", "errored"}
  /\ fdOpen
  /\ fdOpen' = FALSE
  /\ UNCHANGED <<pc, dir, readVars, loopVars, callVars, caught, log, wcalls,
                 wdata, queue, stream, fileExists, file, promise>>

\* await writeToCSV(...) resumes with the promise resolved
MainDone ==
  /\ pc = "write"
  /\ promise = "resolved"
  /\ log' = Append(log, Entry("main", "CSV file written to", "invoice_data.csv"))
  /\ pc' = "done"
  /\ UNCHANGED <<dir, readVars, loopVars, callVars, caught, writeVars>>

\* await writeToCSV(...) resumes with the promise rejected
MainWriteFail ==
  /\ pc = "write"
  /\ promise = "rejected"
  /\ MainCatch("write")
  /\ UNCHANGED <<dir, readVars, loopVars, callVars, writeVars>>

Next ==
  \/ ReadDirFail
  \/ ReadDir
  \/ ReadFileFail
  \/ ReadFile
  \/ PdfFail
  \/ PdfParse
  \/ Generate
  \/ Retry
  \/ ApiThrow
  \/ ParseThrow
  \/ Extracted
  \/ WriteToCSV
  \/ StreamOpen
  \/ StreamOpenError
  \/ StreamWrite
  \/ StreamWriteError
  \/ StreamFinish
  \/ StreamClose
  \/ MainDone
  \/ MainWriteFail

Spec == Init /\ [][Next]_vars

\* every awaited operation (fs.readdir, fs.readFile, pdf, a generation
\* request, the write stream) eventually returns or fails: a step that can
\* be taken is eventually taken
FairSpec == Spec /\ WF_vars(Next)

\* ------------------------------------------------- the state of a document
\* the lines main printed when an extraction resolved, one per document
Resolutions ==
  SelectSeq(log, LAMBDA e : e.fn = "main" /\ e.ev \in
                   {"Extracted invoice data:", "Error extracting invoice data:"})

\* the lines main printed when it took a document up
Announcements ==
  SelectSeq(log, LAMBDA e : e.ev = "Processing invoice:")

Docs == 1..Len(invoiceContents)

\* Pending, Extracting, Succeeded or Failed
Status(i) ==
  IF i <= Len(Resolutions)
    THEN IF Resolutions[i].ev = "Extracted invoice data:"
           THEN "Succeeded" ELSE "Failed"
    ELSE IF i <= Len(Announcements) THEN "Extracting" ELSE "Pending"

Resolved(i) == Status(i) \in {"Succeeded", "Failed"}

AllResolved == Len(Resolutions) = Len(invoiceContents)

\* the call of extractInvoiceData for document idx - 1 is over; script,
\* attempts, errors are those of that call
LastCallOver == pc # "generate" /\ idx > 1

LastCallFailed == LastCallOver /\ Status(idx - 1) = "Failed"

LastCallSucceeded == LastCallOver /\ Status(idx - 1) = "Succeeded"

fileNameOf(rec) == Get(rec, "fileName").s

\* ------------------------------------------------------------------ C1
\* C1: a failed extraction of one document never aborts the run: the run
\* is aborted only from readInvoices or from the writer; after a failure
\* the loop takes up the next document or, after the last one, the writer;
\* once the writer is invoked every loaded document has been announced and
\* its extraction has resolved, however many of them failed.
C1_FailureNeverAborts ==
  /\ pc = "aborted" => caught \in {"readdir", "readFile", "pdf", "write"}
  /\ (LastCallFailed /\ pc = "loop" /\ idx <= Len(invoiceContents))
       => ENABLED Generate
  /\ (LastCallFailed /\ pc = "loop" /\ idx > Len(invoiceContents))
       => ENABLED WriteToCSV
  /\ LastCallFailed => pc \in {"loop", "write", "done", "aborted"}
  /\ wcalls > 0 =>
       /\ Len(Announcements) = Len(invoiceContents)
       /\ \A i \in Docs : Announcements[i].arg = invoiceContents[i].fileName
       /\ AllResolved

\* two documents, the first failed, the second was still extracted and the
\* writer was invoked
C1_Witness ==
  /\ Len(invoiceContents) = 2
  /\ Status(1) = "Failed"
  /\ Status(2) = "Succeeded"
  /\ wcalls = 1

C4_WriteOnceAfterAll ==
  /\ wcalls <= 1
  /\ wcalls = 1 =>
       /\ pc \in {"write", "done", "aborted"}
       /\ idx = Len(invoiceContents) + 1
       /\ AllResolved
       /\ wdata = extractedData
  /\ pc = "done" => wcalls = 1
  /\ (pc = "loop" /\ idx > Len(invoiceContents)) => ENABLED WriteToCSV
  /\ (stream # "none" \/ fdOpen \/ fileExists \/ file # <<>>
        \/ promise # "none")
       => (wcalls = 1 /\ AllResolved /\ inflight = 0)

\* two documents, both resolved, one write, main ended normally
C4_Witness ==
  /\ Len(invoiceContents) = 2
  /\ wcalls = 1
  /\ Len(file) >= 1
  /\ pc = "done"

\* ------------------------------------------------------------------ C5
RECURSIVE SucceededNames(_)
\* the file names of the documents 1..n whose extraction succeeded, in
\* loader order
SucceededNames(n) ==
  IF n = 0
    THEN <<>>
    ELSE IF Status(n) = "Succeeded"
           THEN Append(SucceededNames(n - 1), invoiceContents[n].fileName)
           ELSE SucceededNames(n - 1)

\* C5: at any time the Batch is the resolved documents whose extraction
\* succeeded, in loader order, and so is the writer's argument; failed
\* documents are left out; the rows are at most the documents and as many
\* iff every extraction succeeded.
C5_BatchIsSucceededInOrder ==
  /\ [j \in 1..Len(extractedData) |-> fileNameOf(extractedData[j])]
       = SucceededNames(Len(Resolutions))
  /\ wcalls = 1 =>
       /\ [j \in 1..Len(wdata) |-> fileNameOf(wdata[j])]
            = SucceededNames(Len(invoiceContents))
       /\ Len(wdata) <= Len(invoiceContents)
       /\ Len(wdata) = Len(invoiceContents)
            <=> \A i \in Docs : Status(i) = "Succeeded"

\* two succeeded documents handed to the writer
C5_Witness ==
  /\ wcalls = 1
  /\ Len(wdata) = 2
  /\ Len(invoiceContents) = 2

\* ------------------------------------------------------------------ C6
HasAllFields(rec) ==
  /\ Get(rec, "invoiceNumber").t = "string"
  /\ Get(rec, "issueDate").t = "string"
  /\ Get(rec, "companyName").t = "string"
  /\ Get(rec, "companyAddress").t = "string"
  /\ Get(rec, "dueDate").t = "string"
  /\ Get(rec, "totalAmount").t = "number"
  /\ Get(rec, "currency").t = "string"
  /\ Get(rec, "customerName").t = "string"
  /\ Get(rec, "customerAddress").t = "string"
  /\ Get(rec, "taxes").t = "number"

\* C6: every record of the Batch holds the ten schema fields with the
\* declared types; a call whose last response lacked a field or held a
\* value of another type failed and added no record.
C6_NoPartialRecords ==
  /\ \A j \in 1..Len(extractedData) : HasAllFields(extractedData[j])
  /\ \A j \in 1..Len(wdata) : HasAllFields(wdata[j])
  /\ (LastCallOver /\ Reply(script, attempts).kind = "object"
        /\ ~HasAllFields(Reply(script, attempts).obj))
       => /\ LastCallFailed
          /\ \A j \in 1..Len(extractedData) :
               fileNameOf(extractedData[j]) # invoiceContents[idx - 1].fileName

\* a response with a string for totalAmount was rejected while the Batch
\* holds the record of another document
C6_Witness ==
  /\ LastCallFailed
  /\ Reply(script, attempts) = Object(RespWrongType)
  /\ Len(extractedData) = 1

\* ------------------------------------------------------------------ C7
\* C7: with an empty Batch at the end of the loop the writer is still
\* invoked; it queues no line, no write can fail, and when the stream
\* finishes and main ends the output file exists and holds 0 rows.
C7_EmptyBatchWritten ==
  /\ (pc = "loop" /\ idx > Len(invoiceContents) /\ extractedData = <<>>)
       => ENABLED WriteToCSV
  /\ (wcalls = 1 /\ wdata = <<>>) =>
       /\ queue = <<>>
       /\ file = <<>>
       /\ ~ENABLED StreamWriteError
       /\ stream = "open" => ENABLED StreamFinish
       /\ stream = "finished" => fileExists
       /\ pc = "done" => (fileExists /\ promise = "resolved")

\* one document, its extraction failed, the run ended with an empty file
C7_Witness ==
  /\ Len(invoiceContents) = 1
  /\ Status(1) = "Failed"
  /\ wdata = <<>>
  /\ pc = "done"
  /\ fileExists
  /\ file = <<>>

\* ------------------------------------------------------------------ C8
\* C8: when fs.readdir, fs.readFile or pdf fails in readInvoices the run is
\* aborted with no generation request issued and the writer not invoked;
\* no request is issued while readInvoices runs, and once one is issued
\* the documents are those of the whole filtered listing.
C8_ReadFailsFast ==
  /\ caught \in {"readdir", "readFile", "pdf"} =>
       /\ pc = "aborted"
       /\ attempts = 0
       /\ inflight = 0
       /\ Announcements = <<>>
       /\ wcalls = 0
       /\ stream = "none"
       /\ ~fileExists
  /\ pc \in {"readdir", "readFile", "pdf"} =>
       (attempts = 0 /\ inflight = 0 /\ wcalls = 0)
  /\ (attempts > 0 \/ wcalls > 0) =>
       [i \in Docs |-> invoiceContents[i].fileName] = pdfFilter(dir)

\* the text of the second document cannot be extracted
C8_Witness ==
  /\ pc = "aborted"
  /\ caught = "pdf"
  /\ Len(invoiceData) = 1
  /\ Len(pdfFiles) = 2

\* ------------------------------------------------------------------ C9
\* C9 as stated: a run that ended without a directory read failure and
\* without an output write failure processed every document and wrote the
\* output file.
C9_Original ==
  (pc \in {"done", "aborted"} /\ caught \notin {"readdir", "write"})
  => /\ AllResolved
     /\ [i \in Docs |-> invoiceContents[i].fileName] = pdfFilter(dir)
     /\ wcalls = 1
     /\ fileExists

\* a step that is no failure of the file system
Proceed ==
  \/ ReadDir \/ ReadFile \/ PdfParse \/ Generate \/ Retry \/ ApiThrow
  \/ ParseThrow \/ Extracted \/ WriteToCSV \/ StreamOpen \/ StreamWrite
  \/ StreamFinish \/ MainDone

\* C9 amended: the run is aborted only by a directory read failure, a
\* failure to read a file or to extract its text, or an output write
\* failure; a run that ended without any of them processed every document
\* of the filtered listing and wrote one line per Batch record to the
\* output file; while none has occurred the run can go on.
C9_AbortConditions ==
  /\ pc = "aborted" => caught \in {"readdir", "readFile", "pdf", "write"}
  /\ (pc \in {"done", "aborted"}
        /\ caught \notin {"readdir", "readFile", "pdf", "write"})
     => /\ pc = "done"
        /\ AllResolved
        /\ [i \in Docs |-> invoiceContents[i].fileName] = pdfFilter(dir)
        /\ wcalls = 1
        /\ fileExists
        /\ Len(file) = Len(extractedData)
  /\ (pc \notin {"done", "aborted"} /\ stream # "errored")
     => ENABLED Proceed

\* two documents, one failed, one succeeded, the file written
C9_Witness ==
  /\ pc = "done"
  /\ caught = "none"
  /\ Len(invoiceContents) = 2
  /\ Status(1) = "Succeeded"
  /\ Status(2) = "Failed"
  /\ Len(file) = 1

\* ----------------------------------------------------------------- C10
\* the cells of a row in the fixed column order
ExpectedRow(rec) ==
  << Get(rec, "fileName").s,
     Get(rec, "invoiceNumber").s,
     Get(rec, "issueDate").s,
     Get(rec, "companyName").s,
     Get(rec, "companyAddress").s,
     Get(rec, "dueDate").s,
     Cast(Get(rec, "totalAmount")),
     Get(rec, "currency").s,
     Get(rec, "customerName").s,
     Get(rec, "customerAddress").s,
     Cast(Get(rec, "taxes")) >>

\* C10: the lines of the file are, in Batch order and from the first line
\* on (no header line), the rows of the Batch records, each with its
\* cells in the fixed column order; all of them once main ended normally;
\* the cells do not depend on the key order of the record.
C10_RowsInColumnOrder ==
  /\ Len(file) <= Len(wdata)
  /\ \A j \in 1..Len(file) : file[j] = ExpectedRow(wdata[j])
  /\ pc = "done" => Len(file) = Len(wdata)
  /\ pc = "readdir" =>
       \A r \in Responses :
         SchemaAccepts(r) =>
           Cells(csvRow(Spread(r, "fileName", Str(FileA))))
             = ExpectedRow(Spread(r, "fileName", Str(FileA)))

\* two rows written, the second with the taxes of its record in the last
\* cell
C10_Witness ==
  /\ pc = "done"
  /\ Len(file) = 2
  /\ file[2][1] = fileNameOf(wdata[2])
  /\ file[2][11] = <<"2", "1">>

\* ----------------------------------------------------------------- C11
\* C11 as stated: taxes of every Batch record is a number, and it is not
\* negative.
C11_Original ==
  \A j \in 1..Len(extractedData) :
    /\ Get(extractedData[j], "taxes").t = "number"
    /\ Get(extractedData[j], "taxes").n >= 0

\* C11 amended: taxes of every Batch record is present and a number; a
\* call whose last response held no taxes, or a taxes that is no number,
\* failed and added no record; a negative taxes is accepted as it is.
C11_TaxesIsNumber ==
  /\ \A j \in 1..Len(extractedData) :
       Get(extractedData[j], "taxes").t = "number"
  /\ (LastCallOver /\ Reply(script, attempts).kind = "object"
        /\ Get(Reply(script, attempts).obj, "taxes").t # "number")
       => /\ LastCallFailed
          /\ thrown.kind = "TypeValidationError"
          /\ \A j \in 1..Len(extractedData) :
               fileNameOf(extractedData[j]) # invoiceContents[idx - 1].fileName
  /\ (LastCallOver /\ Reply(script, attempts) = Object(RespNegTax))
       => /\ LastCallSucceeded
          /\ Get(extractedData[Len(extractedData)], "taxes") = Num(-5)

\* a response with null for taxes was rejected, one with a negative taxes
\* is in the Batch
C11_Witness ==
  /\ LastCallFailed
  /\ Reply(script, attempts) = Object(RespNullTaxes)
  /\ Len(extractedData) = 1
  /\ Get(extractedData[1], "taxes").n < 0

\* ----------------------------------------------------------------- C12
Forbidden == {"#", "*", "\\"}

HasForbidden(str) == \E c \in 1..Len(str) : str[c] \in Forbidden

\* C12 as stated: no Batch record holds an invoiceNumber with a forbidden
\* character.
C12_Original ==
  \A j \in 1..Len(extractedData) :
    ~HasForbidden(Get(extractedData[j], "invoiceNumber").s)

\* C12 amended: the schema requires of invoiceNumber only that it is a
\* string; a response that conforms otherwise and holds a forbidden
\* character in invoiceNumber is returned as a successful result and its
\* invoiceNumber reaches the Batch unchanged.
C12_MarkupAccepted ==
  /\ \A j \in 1..Len(extractedData) :
       Get(extractedData[j], "invoiceNumber").t = "string"
  /\ (LastCallOver /\ Reply(script, attempts).kind = "object"
        /\ HasAllFields(Reply(script, attempts).obj)
        /\ HasForbidden(Get(Reply(script, attempts).obj, "invoiceNumber").s))
       => /\ LastCallSucceeded
          /\ Get(extractedData[Len(extractedData)], "invoiceNumber")
               = Get(Reply(script, attempts).obj, "invoiceNumber")

\* a record with "#" in invoiceNumber is in the Batch handed to the writer
C12_Witness ==
  /\ wcalls = 1
  /\ Len(wdata) = 1
  /\ HasForbidden(Get(wdata[1], "invoiceNumber").s)

\* ----------------------------------------------------------------- C13
Settled == promise \in {"resolved", "rejected"}

\* C13: when every awaited operation eventually returns or fails, main
\* eventually ends, normally or through its outer catch, whatever the
\* number of documents and of failed extractions; when it ends normally
\* every document was processed and the file holds every queued line; the
\* promise of writeToCSV, once pending, eventually settles.
C13_Terminates ==
  /\ <>(pc \in {"done", "aborted"})
  /\ [](pc = "done" =>
         (AllResolved /\ wcalls = 1 /\ promise = "resolved"
            /\ fileExists /\ file = queue))
  /\ [](pc = "aborted" => caught # "none")
  /\ (promise = "pending") ~> Settled

\* two documents, both extractions failed, main ended normally and the
\* handle is closed
C13_Witness ==
  /\ pc = "done"
  /\ Len(invoiceContents) = 2
  /\ Status(1) = "Failed"
  /\ Status(2) = "Failed"
  /\ promise = "resolved"
  /\ ~fdOpen

\* ----------------------------------------------------------------- C14
\* position of a file name in the listing of the directory
PosInDir(name) == CHOOSE j \in 1..Len(dir) : dir[j] = name

\* C14 as stated: the loader yields the documents in lexicographic order
\* of their file names, and the rows of the file are in that order.
C14_Original ==
  /\ \A i, j \in Docs :
       i < j => LexLess(invoiceContents[i].fileName,
                        invoiceContents[j].fileName)
  /\ \A a, b \in 1..Len(file) : a < b => LexLess(file[a][1], file[b][1])

\* C14 amended: the loader does not sort: it yields the documents in the
\* order fs.readdir lists them, and the rows of the file are in that
\* order; two runs give the same rows in the same order when the listing
\* and the replies of the service are the same.
C14_ListingOrder ==
  /\ \A i, j \in Docs :
       i < j => PosInDir(invoiceContents[i].fileName)
                  < PosInDir(invoiceContents[j].fileName)
  /\ \A a, b \in 1..Len(extractedData) :
       a < b => PosInDir(fileNameOf(extractedData[a]))
                  < PosInDir(fileNameOf(extractedData[b]))
  /\ \A a, b \in 1..Len(file) :
       a < b => PosInDir(file[a][1]) < PosInDir(file[b][1])

\* the listing is not sorted and the rows of the file are in its order
C14_Witness ==
  /\ pc = "done"
  /\ Len(file) = 2
  /\ LexLess(file[2][1], file[1][1])
  /\ dir = <<file[1][1], file[2][1]>>

\* ----------------------------------------------------------------- C15
\* the name ends in ".pdf" in any letter case, after at least one character
HasPdfExtension(name) ==
  /\ Len(name) > 4
  /\ name[Len(name) - 3] = "."
  /\ name[Len(name) - 2] \in {"p", "P"}
  /\ name[Len(name) - 1] \in {"d", "D"}
  /\ name[Len(name)] \in {"f", "F"}

\* C15: the files readInvoices reads and parses are the entries of the
\* listing whose extension is .pdf in any letter case, in listing order;
\* it returns one document for each of them, with the entry's name, and
\* none for any other entry.
C15_OnlyPdfLoaded ==
  /\ (pc # "readdir" /\ caught # "readdir")
       => pdfFiles = SelectSeq(dir, HasPdfExtension)
  /\ pc \in {"readFile", "pdf"} =>
       /\ ridx \in 1..Len(pdfFiles)
       /\ HasPdfExtension(pdfFiles[ridx])
       /\ Len(invoiceData) = ridx - 1
  /\ \A j \in 1..Len(invoiceData) :
       /\ invoiceData[j].fileName = pdfFiles[j]
       /\ invoiceData[j].filePath = <<"/">> \o pdfFiles[j]
  /\ (pc \in {"loop", "generate", "write", "done"} \/ caught = "write") =>
       /\ invoiceContents = invoiceData
       /\ [j \in Docs |-> invoiceContents[j].fileName]
            = SelectSeq(dir, HasPdfExtension)

\* a listing of ".pdf" and "B.PDF": one document, that of "B.PDF"
C15_Witness ==
  /\ pc = "loop"
  /\ dir = <<FileDot, FileB>>
  /\ Len(invoiceContents) = 1
  /\ invoiceContents[1].fileName = FileB

\* ----------------------------------------------------------------- C16
\* C16 as stated: the promise is resolved only with every line in the file
\* and the handle closed; an error rejects it and main ends through its
\* catch; a run that ended on an error leaves no partly written file.
C16_Original ==
  /\ promise = "resolved" => (file = queue /\ ~fdOpen)
  /\ stream = "errored" => promise = "rejected"
  /\ (promise = "rejected" /\ pc \in {"done", "aborted"}) => pc = "aborted"
  /\ (stream = "errored" /\ ~ENABLED Next)
       => ~(fileExists /\ Len(file) < Len(queue))

\* C16 amended: the promise is resolved on the "finish" of the stream,
\* with every line in the file; the handle is closed after that, possibly
\* after main went on; an error rejects the promise and main ends through
\* its catch without the success message; the handle is closed at the end
\* of every run, but the lines written before the error stay in the file.
C16_ResolvedOnFinish ==
  /\ promise = "resolved" =>
       (stream = "finished" /\ fileExists /\ file = queue)
  /\ stream = "finished" => promise = "resolved"
  /\ (stream \in {"finished", "errored"} /\ fdOpen) => ENABLED StreamClose
  /\ stream = "errored" => promise = "rejected"
  /\ promise = "rejected" =>
       /\ stream = "errored"
       /\ pc \in {"write", "aborted"}
       /\ pc = "write" => (ENABLED MainWriteFail /\ ~ENABLED MainDone)
       /\ pc = "aborted" => caught = "write"
  /\ pc = "done" => promise = "resolved"
  /\ ~ENABLED Next => ~fdOpen

\* main went on after "finish" while the handle is still open
C16_Witness ==
  /\ pc = "done"
  /\ promise = "resolved"
  /\ fdOpen
  /\ Len(file) = 2

\* a run that ended on a write error: one of two lines is in the file
C16_PartialFile ==
  /\ pc = "aborted"
  /\ stream = "errored"
  /\ ~fdOpen
  /\ fileExists
  /\ Len(file) = 1
  /\ Len(queue) = 2

\* ----------------------------------------------------------------- C17
\* the moves of document i in one step
StatusStep(i) ==
  /\ Status(i) = "Pending" => Status(i)' \in {"Pending", "Extracting"}
  /\ Status(i) = "Extracting" =>
       Status(i)' \in {"Extracting", "Succeeded", "Failed"}
  /\ Status(i) = "Succeeded" => Status(i)' = "Succeeded"
  /\ Status(i) = "Failed" => Status(i)' = "Failed"

\* C17: a document moves only from Pending to Extracting and from
\* Extracting to Succeeded or Failed, and never out of Succeeded or Failed;
\* main takes each document up at most once, in loader order, one at a
\* time; once the loop is over no document is Pending or Extracting.
C17_StateMachine ==
  /\ [][\A i \in 1..Len(invoiceContents') : StatusStep(i)]_vars
  /\ [](/\ Len(Announcements) <= Len(invoiceContents)
        /\ \A i \in 1..Len(Announcements) :
             Announcements[i].arg = invoiceContents[i].fileName
        /\ Cardinality({i \in Docs : Status(i) = "Extracting"}) <= 1)
  /\ []((pc \in {"write", "done"} \/ wcalls > 0) =>
          \A i \in Docs : Status(i) \in {"Succeeded", "Failed"})

\* the first document succeeded, the second is being extracted for the
\* second time round the retry loop
C17_Witness ==
  /\ Len(invoiceContents) = 2
  /\ Status(1) = "Succeeded"
  /\ Status(2) = "Extracting"
  /\ attempts = 2

\* ----------------------------------------------------------------- C18
\* the last call of extractInvoiceData is over and used up all its requests
Exhausted == pc # "generate" /\ idx > 1 /\ Len(errors) = maxRetries + 1

\* the lines extractInvoiceData's catch printed
ExtractErrors == SelectSeq(log, LAMBDA e : e.fn = "extractInvoiceData")

\* C18 as stated: the error of an exhausted call carries the originating
\* document identifier and the last underlying error.
C18_Original ==
  Exhausted =>
    /\ "doc" \in DOMAIN thrown
    /\ thrown.doc = invoiceContents[idx - 1].fileName
    /\ thrown.last = errors[Len(errors)]

\* C18: when all attempts for a document are exhausted extractInvoiceData
\* neither swallows the failure nor returns a value: it prints the error
\* and throws to main the one RetryError of the retry wrapper, which
\* carries the last underlying error and the number of attempts and no
\* document identifier; the document is Failed and has no Batch record.
C18_ErrorRethrown ==
  /\ Exhausted =>
       /\ Status(idx - 1) = "Failed"
       /\ thrown.kind = "RetryError"
       /\ thrown.last = errors[Len(errors)]
       /\ thrown.tries = Len(errors)
       /\ DOMAIN thrown = {"kind", "last", "tries"}
       /\ Resolutions[idx - 1].arg = thrown.kind
       /\ ExtractErrors[Len(ExtractErrors)].arg = thrown.kind
       /\ \A j \in 1..Len(extractedData) :
            fileNameOf(extractedData[j]) # invoiceContents[idx - 1].fileName
  /\ Len(ExtractErrors) = Cardinality({i \in Docs : Status(i) = "Failed"})

\* the second document used up its nine requests after the first one had
\* been extracted
C18_Witness ==
  /\ Exhausted
  /\ idx = 3
  /\ Status(1) = "Succeeded"
  /\ thrown = RetryError("network", maxRetries + 1)

\* ----------------------------------------------------------------- C19
\* C19: documents are processed strictly sequentially: at most one
\* generation request is in flight, it belongs to the one document being
\* extracted, and while it is in flight every earlier document has
\* succeeded or failed and no later document has been taken up.
C19_Sequential ==
  /\ inflight \in {0, 1}
  /\ inflight = 1 <=> pc = "generate"
  /\ Len(Announcements) = Len(Resolutions) + inflight
  /\ pc = "generate" =>
       /\ idx \in Docs
       /\ Status(idx) = "Extracting"
       /\ \A i \in 1..(idx - 1) : Resolved(i)
       /\ \A i \in (idx + 1)..Len(invoiceContents) : Status(i) = "Pending"

\* the first request for the second document is in flight after the
\* extraction of the first one failed
C19_Witness ==
  /\ pc = "generate"
  /\ inflight = 1
  /\ idx = 2
  /\ attempts = 1
  /\ Status(1) = "Failed"

\* ----------------------------------------------------------------- C20
\* C20: the fileName of every Batch record, and the first cell of every
\* row queued and written, is the file name of the document the record was
\* extracted from; a fileName key of the generated object never shows.
C20_FileNameIsDocument ==
  /\ \A j \in 1..Len(extractedData) :
       Get(extractedData[j], "fileName")
         = Str(SucceededNames(Len(Resolutions))[j])
  /\ LastCallSucceeded =>
       LET rec == extractedData[Len(extractedData)]
           obj == Reply(script, attempts).obj
       IN /\ fileNameOf(rec) = invoiceContents[idx - 1].fileName
          /\ Cells(csvRow(rec))[1] = invoiceContents[idx - 1].fileName
          /\ Has(obj, "fileName") =>
               fileNameOf(rec) # Get(obj, "fileName").s
  /\ \A j \in 1..Len(queue) :
       queue[j][1] = SucceededNames(Len(invoiceContents))[j]
  /\ \A j \in 1..Len(file) :
       file[j][1] = SucceededNames(Len(invoiceContents))[j]

\* the last document was extracted from an object with a fileName key of
\* its own, and its row is in the file under the document's name
C20_Witness ==
  /\ pc = "done"
  /\ LastCallSucceeded
  /\ Get(Reply(script, attempts).obj, "fileName") = Str(Evil)
  /\ Len(file) = 2
  /\ file[2][1] = invoiceContents[2].fileName

====
